---- MODULE Spec2Model ----
(***************************************************************************)
(* The in-memory Cache<T> of the cache utilities (src/unnamed/part_006)    *)
(* and the memoize wrappers built on it; performanceUtils.batch            *)
(* (src/src/lib/performance-utils.ts) and fetchWithRetry                   *)
(* (src/src/lib/data-utils.ts).                                            *)
(*                                                                         *)
(* JavaScript values that may be undefined/null are modelled as sequences  *)
(* of length at most one: <<>> is undefined (or null), <<n>> is the        *)
(* number n.  The Map<string, CacheItem<T>> is a sequence of records in    *)
(* insertion order (the iteration order of a JS Map).                      *)
(***************************************************************************)
EXTENDS Integers, Sequences, FiniteSets, TLC

\* ---------------------------------------------------------------- bounds
MaxTtl == 1      \* largest ttl (ms) a caller passes
Horizon == 2     \* how far the clock advances beyond its first value
MaxOps == 3      \* how many public operations a run makes
MaxCap == 2      \* largest maxSize a cache is constructed with
MaxWraps == 2    \* how many times memoize / memoizeAsync are called
MaxBatch == 2    \* largest maxSize batch is given
MaxDelay == 2    \* largest delay (ms) an option gives: maxDelay, retryDelay
MaxRetries == 3  \* largest retries fetchWithRetry is given

Keys == {"", "a", "b"}
Values == {"v1", "v2"}
Undefined == "undefined"

\* memoize: the argument lists a wrapped function is called with, each of one
\* argument, written as its JavaScript source text; and what fn may return.
Args == {"1", "null", "undefined"}
Results == {"r1", "r2", Undefined}
Throws == "throw"      \* fn throws instead of returning
Outcomes == Results \cup {Throws}

\* Date.now() is milliseconds since the epoch: larger than any ttl's magnitude.
StartTime == MaxTtl + 1
MaxTime == StartTime + Horizon

Ttls == (-1) .. MaxTtl
TtlArgs == {<<>>} \cup {<<n>> : n \in Ttls}
SizeArgs == {<<>>} \cup {<<n>> : n \in 1 .. MaxCap}

VARIABLES
  ctor,     \* the CacheOptions the constructor was given
  cache,    \* this.cache, in insertion order
  stats,    \* this.stats
  now,      \* the value Date.now() returns
  last,     \* the last public operation: its arguments, result and clock reads
  ops,      \* how many public operations (or wrapped calls) were made
  fn,       \* memoize: the wrapped function, argument |-> value it returns
  calls,    \* memoize: how many times fn was invoked
  seen,     \* memoize: argument |-> <<what the first call with it returned>>
  call,     \* memoize: the last call of the wrapped function
  pending,  \* memoizeAsync: the calls awaiting fn's promise
  event,    \* memoizeAsync: the last start or completion of a call
  twin,     \* the map of a cache constructed alike that is given the same
            \* calls at the same clock times, except the gets
  gets,     \* how many times get was called
  caches,   \* the Cache instances the calls of memoize(Async) constructed
  wraps,    \* the wrapped functions memoize(Async) returned
  held,     \* the objects getStats() returned to a caller who kept them
  bopts,    \* batch: maxSize and maxDelay, as destructured from the options
  batch,    \* batch: the array batch
  pendingPromise,  \* batch: <<>> (null) or <<r>>, the promise of runs[r]
  timeoutId,       \* batch: <<>> (null) or <<id>>
  timers,   \* batch: the timers set and not cleared: [id, due]
  runs,     \* batch: the invocations of fn: the items passed, promise settled
  waiters,  \* batch: the calls of the returned function
  ropts,    \* fetchWithRetry: retries and retryDelay
  pc,       \* fetchWithRetry: where the function is
  loopI,    \* fetchWithRetry: the loop variable i
  lastError,       \* fetchWithRetry: <<>> (null) or <<error>>
  attempts, \* fetchWithRetry: the calls of fetchWithTimeout made so far
  waits,    \* fetchWithRetry: the delays of the timers it has set
  promise   \* fetchWithRetry: <<>> while it runs, then how it ended

memoVars == <<fn, calls, seen, call, pending, event>>
twinVars == <<twin, gets>>
batchVars == <<bopts, batch, pendingPromise, timeoutId, timers, runs, waiters>>
retryVars == <<ropts, pc, loopI, lastError, attempts, waits, promise>>
otherVars == <<caches, wraps, held, batchVars, retryVars>>
vars == <<ctor, cache, stats, now, last, ops, fn, calls, seen, call, pending, event,
          twin, gets, otherVars>>

\* No function was made by batch, and fetchWithRetry is not running.
NoBatch ==
  /\ bopts = [maxSize |-> 1, maxDelay |-> 1]
  /\ batch = <<>>
  /\ pendingPromise = <<>>
  /\ timeoutId = <<>>
  /\ timers = {}
  /\ runs = <<>>
  /\ waiters = <<>>

NoRetry ==
  /\ ropts = [retries |-> 0, retryDelay |-> 1]
  /\ pc = "idle"
  /\ loopI = 0
  /\ lastError = <<>>
  /\ attempts = <<>>
  /\ waits = <<>>
  /\ promise = <<>>

\* ------------------------------------------------------- JavaScript values
\* Truthiness of a number-or-undefined/null: undefined, null and 0 are falsy.
Truthy(m) == m # <<>> /\ m[1] # 0

\* m || d for a number-or-undefined m and a number d.
OrElse(m, d) == IF Truthy(m) THEN m[1] ELSE d

\* ------------------------------------------------------------ constructor
\* this.options = { ttl: options.ttl || 0, maxSize: options.maxSize || 0 }
Options(o) == [ttl |-> OrElse(o.ttl, 0), maxSize |-> OrElse(o.maxSize, 0)]

\* this.stats = { hits: 0, misses: 0, size: 0, maxSize: this.options.maxSize || null }
InitStats(o) ==
  [hits |-> 0, misses |-> 0, size |-> 0,
   maxSize |-> IF Options(o).maxSize # 0 THEN <<Options(o).maxSize>> ELSE <<>>]

\* -------------------------------------------------------------- Map helpers
KeysOf(c) == {c[i].key : i \in 1 .. Len(c)}

Range(c) == {c[i] : i \in 1 .. Len(c)}

IndexOf(c, k) == CHOOSE i \in 1 .. Len(c) : c[i].key = k

\* Map.get: <<>> when absent, <<item>> otherwise.
MapGet(c, k) == IF k \in KeysOf(c) THEN <<c[IndexOf(c, k)]>> ELSE <<>>

\* Map.delete
MapDelete(c, k) == SelectSeq(c, LAMBDA it : it.key # k)

\* A Map.set that leaves an existing key's value as it is.
MapSetKeepsValue(c, k, it) == IF k \in KeysOf(c) THEN c ELSE Append(c, it)

\* Map.set: an existing key keeps its place, a new key goes last.
MapSet(c, k, it) ==
  IF k \in KeysOf(c)
  THEN [i \in 1 .. Len(c) |-> IF c[i].key = k THEN it ELSE c[i]]
  ELSE Append(c, it)

\* A sweep that also drops the entry expiring at this very millisecond.
ExpiredAtOrAfter(it, t) == it.expiry # <<>> /\ it.expiry[1] # 0 /\ t >= it.expiry[1]

\* item.expiry && now > item.expiry
Expired(it, t) == Truthy(it.expiry) /\ t > it.expiry[1]

\* A sweep that removes nothing.
RemoveExpiredNothing(c, t) == c

\* removeExpired(): delete every entry whose expiry has passed.
RemoveExpired(c, t) == SelectSeq(c, LAMBDA it : ~Expired(it, t))

\* const firstKey = Array.from(this.cache.keys())[0]; if (firstKey) delete it.
\* The empty string is falsy.
EvictFirst(c) ==
  IF Len(c) > 0 /\ c[1].key # "" THEN MapDelete(c, c[1].key) ELSE c

\* if (maxSize > 0 && this.cache.size >= maxSize) evict the first key
MakeRoom(c, o) ==
  IF o.maxSize > 0 /\ Len(c) >= o.maxSize THEN EvictFirst(c) ELSE c

\* An expiry computed for every ttl that was given, a ttl of 0 included.
ExpiryOfZeroExpires(ttl, o, t) ==
  IF ttl # <<>> THEN <<t + ttl[1]>>
  ELSE IF o.ttl # 0 THEN <<t + o.ttl>> ELSE <<>>

\* An expiry computed also when there is no ttl at all.
ExpiryOfAlways(ttl, o, t) == <<t + OrElse(ttl, o.ttl)>>

\* The cache-level ttl taking precedence over the call's.
ExpiryOfCacheFirst(ttl, o, t) ==
  IF o.ttl # 0 THEN <<t + o.ttl>>
  ELSE IF Truthy(ttl) THEN <<t + ttl[1]>> ELSE <<>>

\* ttl || this.options.ttl ? Date.now() + (ttl || this.options.ttl) : null
ExpiryOf(ttl, o, t) ==
  IF OrElse(ttl, o.ttl) # 0 THEN <<t + OrElse(ttl, o.ttl)>> ELSE <<>>

\* ------------------------------------------------------------- operations
\* A set that makes room before it sweeps the expired entries.
SetMapEvictsFirst(c, o, k, v, ttl, t0, t1) ==
  MapSet(RemoveExpired(MakeRoom(c, o), t0), k,
         [key |-> k, value |-> v, expiry |-> ExpiryOf(ttl, o, t1)])

\* set(key, value, ttl): the map afterwards.  t0 is the clock read by
\* removeExpired(), t1 the one read when the expiry is computed.
SetMap(c, o, k, v, ttl, t0, t1) ==
  MapSet(MakeRoom(RemoveExpired(c, t0), o), k,
         [key |-> k, value |-> v, expiry |-> ExpiryOf(ttl, o, t1)])

\* get(key): the map, the counters and the returned value.  t0 is the clock
\* read by removeExpired(), t1 the one read by the check of the item found.
GetMissCountsTwice(c, s) ==
  [map |-> c, stats |-> [s EXCEPT !.misses = @ + (IF Len(c) < s.size THEN 2 ELSE 1),
                                  !.size = Len(c)],
   ret |-> Undefined]

GetMiss(c, s) == [map |-> c, stats |-> [s EXCEPT !.misses = @ + 1, !.size = Len(c)],
                  ret |-> Undefined]

GetHitNoCount(c, s, it) ==
  [map |-> c, stats |-> [s EXCEPT !.size = Len(c)], ret |-> it.value]

\* A hit that moves the entry to the end of the map (least recently used
\* goes first).
GetHitRefreshes(c, s, it) ==
  [map |-> Append(MapDelete(c, it.key), it),
   stats |-> [s EXCEPT !.hits = @ + 1, !.size = Len(c)], ret |-> it.value]

GetHit(c, s, it) == [map |-> c, stats |-> [s EXCEPT !.hits = @ + 1, !.size = Len(c)],
                     ret |-> it.value]

GetOp(c, s, k, t0, t1) ==
  LET swept == RemoveExpired(c, t0)
      item == MapGet(swept, k)
  IN IF item = <<>> THEN GetMiss(swept, s)
     ELSE IF Expired(item[1], t1) THEN GetMiss(MapDelete(swept, k), s)
     ELSE GetHit(swept, s, item[1])

\* A clear that forgets this.stats.size = 0.
ClearStatsKeepsSize(s) == s

\* A clear that starts the statistics over.
ClearStatsResetsCounters(s) == [s EXCEPT !.size = 0, !.hits = 0, !.misses = 0]

\* clear(): this.cache.clear(); this.stats.size = 0
ClearStats(s) == [s EXCEPT !.size = 0]

\* A delete that always reports success.
DeleteRetAlwaysTrue(c, k) == "true"

\* delete(key): const result = this.cache.delete(key); return result
DeleteRet(c, k) == IF k \in KeysOf(c) THEN "true" ELSE "false"

\* getStats(): return { ...this.stats }
StatsCopy(s) ==
  [hits |-> s.hits, misses |-> s.misses, size |-> s.size, maxSize |-> s.maxSize]

\* The entries of c whose expiry time has not passed at t (the data model's
\* "logically present" entries).
Live(c, t) == SelectSeq(c, LAMBDA it : it.expiry = <<>> \/ it.expiry[1] >= t)

\* What an operation records about the set that came right before it on the
\* same key: <<value, ttl argument, clock at the end of that set>>.
Follows(k) ==
  IF last.op = "set" /\ last.key = k THEN <<last.val, last.ttl, last.t1>> ELSE <<>>

Record(op, k, v, ttl, ret, t0, t1, fol) ==
  [op |-> op, key |-> k, val |-> v, ttl |-> ttl, ret |-> ret, t0 |-> t0, t1 |-> t1,
   item |-> MapGet(cache, k), pre |-> stats, follows |-> fol,
   dead |-> Len(cache) - Len(Live(cache, now)),
   snap |-> IF op = "getStats" THEN <<StatsCopy(stats)>> ELSE <<>>]

NoCall == [arg |-> "", key |-> "", ret |-> Undefined, invoked |-> FALSE,
           hit |-> FALSE, again |-> FALSE, first |-> <<>>, made |-> FALSE]

NoEvent == [kind |-> "none", id |-> 0, arg |-> "", key |-> "", ret |-> Undefined,
            invoked |-> FALSE, hit |-> FALSE, overlap |-> FALSE, calls |-> 0,
            before |-> <<>>]

Init ==
  /\ ctor \in [ttl : TtlArgs, maxSize : SizeArgs]
  /\ cache = <<>>
  /\ stats = InitStats(ctor)
  /\ now = StartTime
  /\ last = [op |-> "new", key |-> "", val |-> Undefined, ttl |-> <<>>,
             ret |-> Undefined, t0 |-> StartTime, t1 |-> StartTime,
             item |-> <<>>, pre |-> InitStats(ctor), follows |-> <<>>,
             dead |-> 0, snap |-> <<>>]
  /\ ops = 0
  /\ fn = [a \in Args |-> Undefined]
  /\ calls = 0
  /\ seen = [a \in Args |-> <<>>]
  /\ call = NoCall
  /\ pending = {}
  /\ event = NoEvent
  /\ twin = <<>>
  /\ gets = 0
  /\ caches = <<>>
  /\ wraps = <<>>
  /\ held = <<>>
  /\ NoBatch
  /\ NoRetry

\* Every public operation is one more call of the run.
Call == ops < MaxOps /\ ops' = ops + 1

Set(k, v, ttl, d) ==
  /\ Call
  /\ now + d <= MaxTime
  /\ cache' = SetMap(cache, Options(ctor), k, v, ttl, now, now + d)
  /\ stats' = [stats EXCEPT !.size = Len(cache')]
  /\ now' = now + d
  /\ last' = Record("set", k, v, ttl, Undefined, now, now + d, <<>>)
  /\ twin' = SetMap(twin, Options(ctor), k, v, ttl, now, now + d)
  /\ UNCHANGED <<ctor, gets>>
  /\ UNCHANGED <<memoVars, otherVars>>

Get(k, d) ==
  /\ Call
  /\ now + d <= MaxTime
  /\ LET r == GetOp(cache, stats, k, now, now + d)
     IN /\ cache' = r.map
        /\ stats' = r.stats
        /\ last' = Record("get", k, Undefined, <<>>, r.ret, now, now + d, Follows(k))
  /\ now' = now + d
  /\ gets' = gets + 1
  /\ UNCHANGED <<ctor, twin>>
  /\ UNCHANGED <<memoVars, otherVars>>

Delete(k) ==
  /\ Call
  /\ cache' = MapDelete(cache, k)
  /\ stats' = [stats EXCEPT !.size = Len(cache')]
  /\ last' = Record("delete", k, Undefined, <<>>,
                    DeleteRet(cache, k), now, now, <<>>)
  /\ twin' = MapDelete(twin, k)
  /\ UNCHANGED <<ctor, now, gets>>
  /\ UNCHANGED <<memoVars, otherVars>>

Has(k) ==
  /\ Call
  /\ cache' = RemoveExpired(cache, now)
  /\ stats' = [stats EXCEPT !.size = Len(cache')]
  /\ last' = Record("has", k, Undefined, <<>>,
                    IF k \in KeysOf(cache') THEN "true" ELSE "false", now, now,
                    Follows(k))
  /\ twin' = RemoveExpired(twin, now)
  /\ UNCHANGED <<ctor, now, gets>>
  /\ UNCHANGED <<memoVars, otherVars>>

Clear ==
  /\ Call
  /\ cache' = <<>>
  /\ stats' = ClearStats(stats)
  /\ last' = Record("clear", "", Undefined, <<>>, Undefined, now, now, <<>>)
  /\ twin' = <<>>
  /\ UNCHANGED <<ctor, now, gets>>
  /\ UNCHANGED <<memoVars, otherVars>>

GetStats ==
  /\ Call
  /\ last' = Record("getStats", "", Undefined, <<>>, Undefined, now, now, <<>>)
  /\ UNCHANGED <<ctor, cache, stats, now>>
  /\ UNCHANGED <<memoVars, twinVars, otherVars>>

\* A timer that sweeps the map whenever time passes.
TickSweeps ==
  /\ now < MaxTime
  /\ now' = now + 1
  /\ cache' = RemoveExpired(cache, now')
  /\ stats' = [stats EXCEPT !.size = Len(cache')]
  /\ UNCHANGED <<ctor, last, ops, memoVars, twinVars, otherVars>>

\* Time passes between two operations.
Tick ==
  /\ now < MaxTime
  /\ now' = now + 1
  /\ UNCHANGED <<ctor, cache, stats, last, ops, memoVars, twinVars, otherVars>>

Next ==
  \/ \E k \in Keys, v \in Values, ttl \in TtlArgs, d \in {0, 1} : Set(k, v, ttl, d)
  \/ \E k \in Keys, d \in {0, 1} : Get(k, d)
  \/ \E k \in Keys : Delete(k)
  \/ \E k \in Keys : Has(k)
  \/ Clear
  \/ GetStats
  \/ Tick

Spec == Init /\ [][Next]_vars

\* One unbounded cache and a wider range of ttls, for what set computes as an
\* entry's expiry.
LongTtl == MaxTtl + 1
WideTtlArgs == {<<>>} \cup {<<n>> : n \in (-1) .. LongTtl}

InitExpiry ==
  /\ ctor \in [ttl : WideTtlArgs, maxSize : {<<>>}]
  /\ cache = <<>>
  /\ stats = InitStats(ctor)
  /\ now = StartTime
  /\ last = [op |-> "new", key |-> "", val |-> Undefined, ttl |-> <<>>,
             ret |-> Undefined, t0 |-> StartTime, t1 |-> StartTime,
             item |-> <<>>, pre |-> InitStats(ctor), follows |-> <<>>,
             dead |-> 0, snap |-> <<>>]
  /\ ops = 0
  /\ fn = [a \in Args |-> Undefined]
  /\ calls = 0
  /\ seen = [a \in Args |-> <<>>]
  /\ call = NoCall
  /\ pending = {}
  /\ event = NoEvent
  /\ twin = <<>>
  /\ gets = 0
  /\ caches = <<>>
  /\ wraps = <<>>
  /\ held = <<>>
  /\ NoBatch
  /\ NoRetry

NextExpiry ==
  \/ \E k \in {"a", "b"}, ttl \in WideTtlArgs, d \in {0, 1} : Set(k, "v1", ttl, d)
  \/ \E k \in {"a", "b"}, d \in {0, 1} : Get(k, d)
  \/ Tick

SpecExpiry == InitExpiry /\ [][NextExpiry]_vars

\* A cache that two sets have already filled, so that a run reaches further
\* evictions: the state after set(k1, "v1") and set(k2, "v2") at StartTime.
AfterSets(o, k1, k2) ==
  SetMap(SetMap(<<>>, Options(o), k1, "v1", <<>>, StartTime, StartTime),
         Options(o), k2, "v2", <<>>, StartTime, StartTime)

InitOrder ==
  /\ ctor \in [ttl : {<<>>, <<1>>}, maxSize : SizeArgs]
  /\ \E k1 \in {"a"}, k2 \in {"b"} :
       /\ cache = AfterSets(ctor, k1, k2)
       /\ last = [op |-> "set", key |-> k2, val |-> "v2", ttl |-> <<>>,
                  ret |-> Undefined, t0 |-> StartTime, t1 |-> StartTime,
                  item |-> MapGet(SetMap(<<>>, Options(ctor), k1, "v1", <<>>,
                                         StartTime, StartTime), k2),
                  pre |-> [InitStats(ctor) EXCEPT !.size = 1], follows |-> <<>>,
                  dead |-> 0, snap |-> <<>>]
  /\ twin = cache
  /\ stats = [InitStats(ctor) EXCEPT !.size = Len(cache)]
  /\ now = StartTime
  /\ ops = 0
  /\ fn = [a \in Args |-> Undefined]
  /\ calls = 0
  /\ seen = [a \in Args |-> <<>>]
  /\ call = NoCall
  /\ pending = {}
  /\ event = NoEvent
  /\ gets = 0
  /\ caches = <<>>
  /\ wraps = <<>>
  /\ held = <<>>
  /\ NoBatch
  /\ NoRetry

NextOrder ==
  \/ \E k \in Keys, ttl \in {<<>>, <<1>>}, d \in {0, 1} : Set(k, "v1", ttl, d)
  \/ \E k \in Keys, d \in {0, 1} : Get(k, d)
  \/ \E k \in Keys : Delete(k)
  \/ \E k \in Keys : Has(k)
  \/ Tick

SpecOrder == InitOrder /\ [][NextOrder]_vars

\* ------------------------------------------- a caller keeping getStats()
\* An object is its identity and its fields.  A getStats that hands out the
\* statistics object itself:
GetStatsReturnsThis(s) == [obj |-> "this.stats", fields |-> s]

\* getStats(): return { ...this.stats }: a new object holding a copy of each
\* field (all of them numbers or null).
GetStatsReturn(s) == [obj |-> "new", fields |-> StatsCopy(s)]

\* getStats() called by a caller who keeps the object returned.
GetStatsHeld ==
  /\ Call
  /\ last' = Record("getStats", "", Undefined, <<>>, Undefined, now, now, <<>>)
  /\ held' = Append(held, GetStatsReturn(stats))
  /\ UNCHANGED <<ctor, cache, stats, now, caches, wraps>>
  /\ UNCHANGED <<memoVars, twinVars, batchVars, retryVars>>

StatsFields == {"hits", "misses", "size", "maxSize"}

\* A value no field of the statistics takes by itself.
Bogus(f) == IF f = "maxSize" THEN <<MaxCap + 1>> ELSE MaxOps + 1

\* The caller assigns to field f of the i-th object it keeps.  The assignment
\* writes the object assigned to, which is this.stats only if that is the
\* object getStats returned.
Mutate(i, f) ==
  /\ i \in 1 .. Len(held)
  /\ held[i].fields[f] # Bogus(f)
  /\ held' = [held EXCEPT ![i].fields[f] = Bogus(f)]
  /\ stats' = IF held[i].obj = "this.stats" THEN [stats EXCEPT ![f] = Bogus(f)]
              ELSE stats
  /\ UNCHANGED <<ctor, cache, now, last, ops, caches, wraps>>
  /\ UNCHANGED <<memoVars, twinVars, batchVars, retryVars>>

NextStats ==
  \/ Set("a", "v1", <<>>, 0)
  \/ \E k \in {"a", "b"} : Get(k, 0)
  \/ GetStatsHeld
  \/ \E i \in 1 .. Len(held), f \in StatsFields : Mutate(i, f)

\* new Cache({ maxSize }): the caller of getStats constructs the cache with no
\* ttl, so that no entry expires under it.
InitStatsRun == Init /\ ctor.ttl = <<>>

SpecStats == InitStatsRun /\ [][NextStats]_vars

\* ---------------------------------------------------------------- memoize
\* The default keyFn: JSON.stringify(args).  undefined in an array is
\* serialized as null.
KeyFn(a) ==
  CASE a = "1" -> "[1]"
    [] a = "null" -> "[null]"
    [] a = "undefined" -> "[null]"

\* memoize(fn, options): const cache = new Cache<T>(options)
InitMemo ==
  /\ ctor \in [ttl : {<<>>, <<1>>}, maxSize : {<<>>, <<1>>}]
  /\ cache = <<>>
  /\ stats = InitStats(ctor)
  /\ now = StartTime
  /\ last = [op |-> "new", key |-> "", val |-> Undefined, ttl |-> <<>>,
             ret |-> Undefined, t0 |-> StartTime, t1 |-> StartTime,
             item |-> <<>>, pre |-> InitStats(ctor), follows |-> <<>>,
             dead |-> 0, snap |-> <<>>]
  /\ ops = 0
  /\ fn \in [Args -> Outcomes]
  /\ calls = 0
  /\ seen = [a \in Args |-> <<>>]
  /\ call = NoCall
  /\ pending = {}
  /\ event = NoEvent
  /\ twin = <<>>
  /\ gets = 0
  /\ caches = <<>>
  /\ wraps = <<>>
  /\ held = <<>>
  /\ NoBatch
  /\ NoRetry

\* if (result === undefined): the wrapper computes the value.
MustCompute(result) == result = Undefined

\* A wrapper that stores whatever the computation ended with.
StoreResultAlways(m, o, key, outcome, t) == SetMap(m, o, key, outcome, <<>>, t, t)

\* result = fn(...args); cache.set(key, result): when fn throws, the
\* exception leaves the wrapper before cache.set is reached.
StoreResult(m, o, key, outcome, t) ==
  IF outcome = Throws THEN m ELSE SetMap(m, o, key, outcome, <<>>, t, t)

\* The wrapped function called with argument a: cache.get(key), and when the
\* result is undefined fn(...args) and cache.set(key, result).  The clock
\* advances by d inside get and by e while fn runs.
MemoCall(a, d, e) ==
  /\ Call
  /\ now + d + e <= MaxTime
  /\ LET key == KeyFn(a)
         g == GetOp(cache, stats, key, now, now + d)
         compute == MustCompute(g.ret)
         result == IF compute THEN fn[a] ELSE g.ret
         t == IF compute THEN now + d + e ELSE now + d
     IN /\ cache' = IF compute
                    THEN StoreResult(g.map, Options(ctor), key, result, t)
                    ELSE g.map
        /\ stats' = [g.stats EXCEPT !.size = Len(cache')]
        /\ calls' = IF compute THEN calls + 1 ELSE calls
        /\ seen' = IF seen[a] = <<>> /\ result # Throws
                   THEN [seen EXCEPT ![a] = <<result>>] ELSE seen
        /\ call' = [arg |-> a, key |-> key, ret |-> result, invoked |-> compute,
                    hit |-> g.stats.hits = stats.hits + 1, again |-> seen[a] # <<>>,
                    first |-> seen[a], made |-> TRUE]
        /\ now' = t
  /\ UNCHANGED <<ctor, last, fn, pending, event, twinVars, otherVars>>

NextMemo ==
  \/ \E a \in Args, d \in {0, 1}, e \in {0, 1} : MemoCall(a, d, e)
  \/ Tick

SpecMemo == InitMemo /\ [][NextMemo]_vars

\* ----------------------------------------------------------- memoizeAsync
Rejects == "reject"    \* fn's promise is rejected (or fn throws)

\* memoizeAsync(fn, options): const cache = new Cache<T>(options)
InitAsync ==
  /\ ctor \in [ttl : {<<>>}, maxSize : SizeArgs]
  /\ cache = <<>>
  /\ stats = InitStats(ctor)
  /\ now = StartTime
  /\ last = [op |-> "new", key |-> "", val |-> Undefined, ttl |-> <<>>,
             ret |-> Undefined, t0 |-> StartTime, t1 |-> StartTime,
             item |-> <<>>, pre |-> InitStats(ctor), follows |-> <<>>,
             dead |-> 0, snap |-> <<>>]
  /\ ops = 0
  /\ fn = [a \in Args |-> Undefined]
  /\ calls = 0
  /\ seen = [a \in Args |-> <<>>]
  /\ call = NoCall
  /\ pending = {}
  /\ event = NoEvent
  /\ twin = <<>>
  /\ gets = 0
  /\ caches = <<>>
  /\ wraps = <<>>
  /\ held = <<>>
  /\ NoBatch
  /\ NoRetry

\* A wrapper that joins a call already in flight for the same key.
StartsFnUnlessInFlight(pend, key, result) ==
  result = Undefined /\ ~\E p \in pend : p.key = key

\* if (result === undefined) { result = await fn(...args) ... }: whether the
\* call invokes fn.  The calls in flight play no part in it.
StartsFn(pend, key, result) == MustCompute(result)

\* The wrapped function is called with argument a: cache.get(key) and, when
\* the result is undefined, fn(...args), whose promise the call then awaits.
\* Otherwise the call completes with the cached value.
AsyncStart(a, d) ==
  /\ Call
  /\ now + d <= MaxTime
  /\ LET key == KeyFn(a)
         g == GetOp(cache, stats, key, now, now + d)
         invoke == StartsFn(pending, key, g.ret)
     IN /\ cache' = g.map
        /\ stats' = g.stats
        /\ calls' = IF invoke THEN calls + 1 ELSE calls
        /\ pending' = IF invoke
                      THEN pending \cup {[id |-> ops + 1, arg |-> a, key |-> key]}
                      ELSE pending
        /\ event' = [kind |-> "start", id |-> ops + 1, arg |-> a, key |-> key,
                     ret |-> g.ret, invoked |-> invoke,
                     hit |-> g.stats.hits = stats.hits + 1,
                     overlap |-> \E p \in pending : p.key = key, calls |-> calls,
                     before |-> MapGet(cache, key)]
  /\ now' = now + d
  /\ UNCHANGED <<ctor, last, fn, seen, call, twinVars, otherVars>>

\* The promise call p awaits settles after e more milliseconds: resolved with
\* a value, which the call stores with cache.set(key, result) and returns, or
\* rejected, which ends the call with that error before cache.set.
AsyncSettle(p, outcome, e) ==
  /\ p \in pending
  /\ now + e <= MaxTime
  /\ cache' = IF outcome = Rejects THEN cache
              ELSE SetMap(cache, Options(ctor), p.key, outcome, <<>>, now + e, now + e)
  /\ stats' = IF outcome = Rejects THEN stats ELSE [stats EXCEPT !.size = Len(cache')]
  /\ pending' = pending \ {p}
  /\ event' = [kind |-> "settle", id |-> p.id, arg |-> p.arg, key |-> p.key,
               ret |-> outcome, invoked |-> TRUE, hit |-> FALSE,
               overlap |-> \E q \in pending \ {p} : q.key = p.key, calls |-> calls,
               before |-> MapGet(cache, p.key)]
  /\ now' = now + e
  /\ UNCHANGED <<ctor, last, ops, fn, calls, seen, call, twinVars, otherVars>>

NextAsync ==
  \/ \E a \in Args, d \in {0, 1} : AsyncStart(a, d)
  \/ \E p \in pending, outcome \in Results \cup {Rejects}, e \in {0, 1} :
        AsyncSettle(p, outcome, e)
  \/ Tick

SpecAsync == InitAsync /\ [][NextAsync]_vars

\* ------------------------------------------- several wrapped functions
\* Calls of memoize and memoizeAsync, each returning a wrapped function of the
\* same fn with the same options, and calls of the wrapped functions.
WrapResults == {"r1", Undefined}    \* what fn returns or resolves with
WrapArgs == {"1", "null"}           \* what the wrapped functions are called with

InitWrap ==
  /\ ctor \in [ttl : {<<>>}, maxSize : {<<>>, <<1>>}]
  /\ cache = <<>>
  /\ stats = InitStats(ctor)
  /\ now = StartTime
  /\ last = [op |-> "new", key |-> "", val |-> Undefined, ttl |-> <<>>,
             ret |-> Undefined, t0 |-> StartTime, t1 |-> StartTime,
             item |-> <<>>, pre |-> InitStats(ctor), follows |-> <<>>,
             dead |-> 0, snap |-> <<>>]
  /\ ops = 0
  /\ fn = [a \in Args |-> IF a = "1" THEN "r1" ELSE Undefined]
  /\ calls = 0
  /\ seen = [a \in Args |-> <<>>]
  /\ call = NoCall
  /\ pending = {}
  /\ event = [kind |-> "none", w |-> 0, key |-> "", invoked |-> FALSE,
              own |-> FALSE]
  /\ twin = <<>>
  /\ gets = 0
  /\ caches = <<>>
  /\ wraps = <<>>
  /\ held = <<>>
  /\ NoBatch
  /\ NoRetry

\* One cache shared by every wrapped function.
NewCacheShared(cs) == 1

\* const cache = new Cache<T>(options), in the body of memoize and of
\* memoizeAsync: every call constructs an instance; the one the returned
\* function closes over is the one just constructed.
NewCache(cs) == Len(cs) + 1

\* memoize(fn, options) or memoizeAsync(fn, options) is called.  keys are the
\* keys under which the calls of the returned function have stored a result.
Memoize(kind) ==
  /\ Len(wraps) < MaxWraps
  /\ caches' = Append(caches, [map |-> <<>>, stats |-> InitStats(ctor)])
  /\ wraps' = Append(wraps, [kind |-> kind, cache |-> NewCache(caches), keys |-> {}])
  /\ UNCHANGED <<ctor, cache, stats, now, last, ops, memoVars, twinVars, held>>
  /\ UNCHANGED <<batchVars, retryVars>>

\* The function memoize returned as wraps[w] is called with argument a.
WrapCall(w, a) ==
  /\ Call
  /\ wraps[w].kind = "sync"
  /\ LET i == wraps[w].cache
         key == KeyFn(a)
         g == GetOp(caches[i].map, caches[i].stats, key, now, now)
         compute == MustCompute(g.ret)
         m == IF compute THEN StoreResult(g.map, Options(ctor), key, fn[a], now)
              ELSE g.map
     IN /\ caches' = [caches EXCEPT ![i] =
                        [map |-> m, stats |-> [g.stats EXCEPT !.size = Len(m)]]]
        /\ wraps' = IF compute THEN [wraps EXCEPT ![w].keys = @ \cup {key}] ELSE wraps
        /\ calls' = IF compute THEN calls + 1 ELSE calls
        /\ event' = [kind |-> "call", w |-> w, key |-> key, invoked |-> compute,
                     own |-> key \in wraps[w].keys]
  /\ UNCHANGED <<ctor, cache, stats, now, last, fn, seen, call, pending, twinVars,
                 held, batchVars, retryVars>>

\* The function memoizeAsync returned as wraps[w] is called with argument a.
WrapStart(w, a) ==
  /\ Call
  /\ wraps[w].kind = "async"
  /\ LET i == wraps[w].cache
         key == KeyFn(a)
         g == GetOp(caches[i].map, caches[i].stats, key, now, now)
         invoke == StartsFn(pending, key, g.ret)
     IN /\ caches' = [caches EXCEPT ![i] = [map |-> g.map, stats |-> g.stats]]
        /\ calls' = IF invoke THEN calls + 1 ELSE calls
        /\ pending' = IF invoke
                      THEN pending \cup {[id |-> ops + 1, w |-> w, key |-> key]}
                      ELSE pending
        /\ event' = [kind |-> "start", w |-> w, key |-> key, invoked |-> invoke,
                     own |-> key \in wraps[w].keys]
  /\ UNCHANGED <<ctor, cache, stats, now, last, fn, seen, call, wraps, twinVars,
                 held, batchVars, retryVars>>

\* The promise call p awaits is resolved with a value, which the call stores.
WrapSettle(p, outcome) ==
  /\ p \in pending
  /\ LET i == wraps[p.w].cache
         m == SetMap(caches[i].map, Options(ctor), p.key, outcome, <<>>, now, now)
     IN caches' = [caches EXCEPT ![i] =
                     [map |-> m, stats |-> [caches[i].stats EXCEPT !.size = Len(m)]]]
  /\ wraps' = [wraps EXCEPT ![p.w].keys = @ \cup {p.key}]
  /\ pending' = pending \ {p}
  /\ event' = [kind |-> "settle", w |-> p.w, key |-> p.key, invoked |-> TRUE,
               own |-> p.key \in wraps[p.w].keys]
  /\ UNCHANGED <<ctor, cache, stats, now, last, ops, fn, calls, seen, call, twinVars,
                 held, batchVars, retryVars>>

NextWrap ==
  \/ \E kind \in {"sync", "async"} : Memoize(kind)
  \/ \E w \in 1 .. Len(wraps), a \in WrapArgs : WrapCall(w, a)
  \/ \E w \in 1 .. Len(wraps), a \in WrapArgs : WrapStart(w, a)
  \/ \E p \in pending, outcome \in WrapResults : WrapSettle(p, outcome)

SpecWrap == InitWrap /\ [][NextWrap]_vars

\* ------------------------------------------------- performanceUtils.batch
\* The cache plays no part in what follows.
CacheIdle ==
  /\ ctor = [ttl |-> <<>>, maxSize |-> <<>>]
  /\ cache = <<>>
  /\ stats = InitStats(ctor)
  /\ now = StartTime
  /\ last = [op |-> "new", key |-> "", val |-> Undefined, ttl |-> <<>>,
             ret |-> Undefined, t0 |-> StartTime, t1 |-> StartTime,
             item |-> <<>>, pre |-> InitStats(ctor), follows |-> <<>>,
             dead |-> 0, snap |-> <<>>]
  /\ ops = 0
  /\ fn = [a \in Args |-> Undefined]
  /\ calls = 0
  /\ seen = [a \in Args |-> <<>>]
  /\ call = NoCall
  /\ pending = {}
  /\ event = NoEvent
  /\ twin = <<>>
  /\ gets = 0
  /\ caches = <<>>
  /\ wraps = <<>>
  /\ held = <<>>

cacheVars == <<ctor, cache, stats, last, memoVars, twinVars, caches, wraps, held>>

Items == {"x", "y"}     \* what the returned function is called with

\* fn(items) resolves with one result for each item, in the items' order.
FnResult(items) == [j \in 1 .. Len(items) |-> [of |-> items[j]]]

\* Array.indexOf: the zero-based index of the first element equal to x, or -1.
ArrayIndexOf(arr, x) ==
  IF \E j \in 1 .. Len(arr) : arr[j] = x
  THEN (CHOOSE j \in 1 .. Len(arr) :
          arr[j] = x /\ \A m \in 1 .. j - 1 : arr[m] # x) - 1
  ELSE -1

\* arr[index]: undefined (<<>>) when there is no such element.
ArrayAt(arr, index) ==
  IF index >= 0 /\ index < Len(arr) THEN <<arr[index + 1]>> ELSE <<>>

\* clearTimeout(id)
ClearTimeout(tms, tid) == IF tid = <<>> THEN tms ELSE {t \in tms : t.id # tid[1]}

\* processBatch() on the array b, with timeoutId tid, the timers tms and the
\* invocations rs made so far: it has no await, so it runs to the call of fn
\* at once.  promise is the promise it returns, that of the new invocation.
ProcessBatch(b, tid, tms, rs) ==
  [batch |-> <<>>, pendingPromise |-> <<>>, timers |-> ClearTimeout(tms, tid),
   timeoutId |-> <<>>, runs |-> Append(rs, [items |-> b, settled |-> FALSE]),
   promise |-> Len(rs) + 1]

InitBatch ==
  /\ CacheIdle
  /\ NoRetry
  /\ bopts \in [maxSize : 1 .. MaxBatch, maxDelay : 1 .. MaxDelay]
  /\ batch = <<>>
  /\ pendingPromise = <<>>
  /\ timeoutId = <<>>
  /\ timers = {}
  /\ runs = <<>>
  /\ waiters = <<>>

\* The returned function is called with item x: everything up to its await.
\* at is the clock at the call, awaits the promise the call then awaits.
BatchCall(x) ==
  /\ Call
  /\ LET b == Append(batch, x)
         sized == ProcessBatch(b, timeoutId, timers, runs)
         timed == ProcessBatch(b, <<ops + 1>>,
                               timers \cup {[id |-> ops + 1,
                                             due |-> now + bopts.maxDelay]}, runs)
         after ==
           IF pendingPromise # <<>>
           THEN [batch |-> b, pendingPromise |-> pendingPromise, timers |-> timers,
                 timeoutId |-> timeoutId, runs |-> runs,
                 promise |-> pendingPromise[1]]
           ELSE IF Len(b) >= bopts.maxSize
           THEN [sized EXCEPT !.pendingPromise = <<sized.promise>>]
           ELSE timed
     IN /\ batch' = after.batch
        /\ pendingPromise' = after.pendingPromise
        /\ timers' = after.timers
        /\ timeoutId' = after.timeoutId
        /\ runs' = after.runs
        /\ waiters' = Append(waiters, [item |-> x, at |-> now, awaits |-> after.promise,
                                       done |-> FALSE, ret |-> <<>>])
  /\ UNCHANGED <<ctor, cache, stats, now, last, memoVars, twinVars, caches, wraps, held>>
  /\ UNCHANGED <<bopts, retryVars>>

\* The promise fn returned for invocation r is fulfilled.
RunSettles(r) ==
  /\ r \in 1 .. Len(runs)
  /\ ~runs[r].settled
  /\ runs' = [runs EXCEPT ![r].settled = TRUE]
  /\ UNCHANGED <<cacheVars, now, ops, retryVars>>
  /\ UNCHANGED <<bopts, batch, pendingPromise, timeoutId, timers, waiters>>

\* Call w continues after its await (the calls awaiting the same promise
\* continue in the order they were made): index = batch.indexOf(item) and
\* return result[index].
Resume(w) ==
  /\ w \in 1 .. Len(waiters)
  /\ ~waiters[w].done
  /\ runs[waiters[w].awaits].settled
  /\ \A v \in 1 .. w - 1 : waiters[v].awaits = waiters[w].awaits => waiters[v].done
  /\ waiters' = [waiters EXCEPT
                   ![w].done = TRUE,
                   ![w].ret = ArrayAt(FnResult(runs[waiters[w].awaits].items),
                                      ArrayIndexOf(batch, waiters[w].item))]
  /\ UNCHANGED <<cacheVars, now, ops, retryVars>>
  /\ UNCHANGED <<bopts, batch, pendingPromise, timeoutId, timers, runs>>

\* The timer callback (lines 220-224) runs for a timer of timers when its time
\* has come.  Every timer a call sets is cleared by the processBatch() of the
\* same call, before anything else runs: timers is empty in every state.
TimersNeverPending == timers = {}

NextBatch ==
  \/ \E x \in Items : BatchCall(x)
  \/ \E r \in 1 .. Len(runs) : RunSettles(r)
  \/ \E w \in 1 .. Len(waiters) : Resume(w)
  \/ Tick

SpecBatch == InitBatch /\ [][NextBatch]_vars

\* ---------------------------------------------------------- fetchWithRetry
Responses == {"resp1", "resp2"}   \* what fetchWithTimeout resolves with
Errors == {"err1", "err2"}        \* what it rejects with

InitRetry ==
  /\ CacheIdle
  /\ NoBatch
  /\ ropts \in [retries : 0 .. MaxRetries, retryDelay : 1 .. MaxDelay]
  /\ pc = "loop"
  /\ loopI = 0
  /\ lastError = <<>>
  /\ attempts = <<>>
  /\ waits = <<>>
  /\ promise = <<>>

\* The same delay before every retry.
RetryWaitFlat(i, retryDelay) == retryDelay

\* retryDelay * (i + 1)
RetryWait(i, retryDelay) == retryDelay * (i + 1)

\* for (...; i < retries; ...): another call of fetchWithTimeout, or the end
\* of the loop and throw lastError.
LoopTest ==
  /\ pc = "loop"
  /\ IF loopI < ropts.retries
     THEN /\ pc' = "fetching"
          /\ attempts' = Append(attempts, [i |-> loopI, at |-> now, end |-> <<>>,
                                          out |-> "pending"])
          /\ UNCHANGED promise
     ELSE /\ pc' = "thrown"
          /\ promise' = <<[state |-> "rejected", value |-> lastError]>>
          /\ UNCHANGED attempts
  /\ UNCHANGED <<cacheVars, now, ops, batchVars>>
  /\ UNCHANGED <<ropts, loopI, lastError, waits>>

\* The awaited fetchWithTimeout resolves after d ms: return its response.
FetchResolves(resp, d) ==
  /\ pc = "fetching"
  /\ now' = now + d
  /\ attempts' = [attempts EXCEPT ![Len(attempts)].end = <<now'>>,
                                  ![Len(attempts)].out = resp]
  /\ pc' = "returned"
  /\ promise' = <<[state |-> "fulfilled", value |-> <<resp>>]>>
  /\ UNCHANGED <<cacheVars, ops, batchVars>>
  /\ UNCHANGED <<ropts, loopI, lastError, waits>>

\* The awaited fetchWithTimeout rejects after d ms: lastError = error, then
\* the timer when i < retries - 1, else the next turn of the loop at once.
FetchRejects(err, d) ==
  /\ pc = "fetching"
  /\ now' = now + d
  /\ attempts' = [attempts EXCEPT ![Len(attempts)].end = <<now'>>,
                                  ![Len(attempts)].out = err]
  /\ lastError' = <<err>>
  /\ IF loopI < ropts.retries - 1
     THEN /\ pc' = "waiting"
          /\ waits' = Append(waits, [after |-> loopI,
                                    delay |-> RetryWait(loopI, ropts.retryDelay),
                                    due |-> now' + RetryWait(loopI, ropts.retryDelay)])
          /\ UNCHANGED loopI
     ELSE /\ pc' = "loop"
          /\ loopI' = loopI + 1
          /\ UNCHANGED waits
  /\ UNCHANGED <<cacheVars, ops, batchVars>>
  /\ UNCHANGED <<ropts, promise>>

\* The timer fires, when it is due or e ms late, and the loop goes on.
WaitEnds(e) ==
  /\ pc = "waiting"
  /\ now' = waits[Len(waits)].due + e
  /\ pc' = "loop"
  /\ loopI' = loopI + 1
  /\ UNCHANGED <<cacheVars, ops, batchVars>>
  /\ UNCHANGED <<ropts, lastError, attempts, waits, promise>>

NextRetry ==
  \/ LoopTest
  \/ \E resp \in Responses, d \in {0, 1} : FetchResolves(resp, d)
  \/ \E err \in Errors, d \in {0, 1} : FetchRejects(err, d)
  \/ \E e \in {0, 1} : WaitEnds(e)

SpecRetry == InitRetry /\ [][NextRetry]_vars

\* ------------------------------------------------------------------ claims
\* What the properties below read off the last operation.
IsAbsent(ret) == ret \in {Undefined, "false"}

KeySeq(c) == [i \in 1 .. Len(c) |-> c[i].key]

\* The step is the public operation op (not the passage of time).
Did(op) == ops' = ops + 1 /\ last'.op = op

\* The last operation is a get that came right after set(k, v), with no ttl
\* argument, on the same key, and the clock has not advanced since that set.
GetRightAfterSet ==
  /\ last.op = "get"
  /\ last.follows # <<>>
  /\ last.follows[2] = <<>>
  /\ last.t0 = last.follows[3]
  /\ last.t1 = last.t0

HitCounted ==
  /\ last.ret = last.follows[1]
  /\ stats.hits = last.pre.hits + 1
  /\ stats.misses = last.pre.misses

\* C1 (as stated): for every configuration, set(k, v) followed immediately by
\* get(k) with no clock advance returns v, adds exactly 1 to hits and leaves
\* misses unchanged.
C1_SetThenGetAnyConfig == GetRightAfterSet => HitCounted

\* C1 (amended): the same, for every configuration whose ttl is not negative.
C1_SetThenGet == (GetRightAfterSet /\ Options(ctor).ttl >= 0) => HitCounted

C1_Witness ==
  /\ GetRightAfterSet
  /\ Options(ctor).ttl > 0
  /\ Options(ctor).maxSize > 0
  /\ last.item # <<>>
  /\ last.ret = last.follows[1]
  /\ stats.hits = 1

\* C2: a get of a key that is not stored (never set, deleted, cleared or
\* evicted) or whose entry's expiry time has passed returns undefined, adds
\* exactly 1 to misses and leaves hits unchanged.
C2_AbsentOrExpiredIsOneMiss ==
  (/\ last.op = "get"
   /\ \/ last.item = <<>>
      \/ /\ last.item[1].expiry # <<>>
         /\ last.t1 > last.item[1].expiry[1])
  => /\ last.ret = Undefined
     /\ stats.misses = last.pre.misses + 1
     /\ stats.hits = last.pre.hits

\* The entry was still live when the sweep ran and expired before the lookup's
\* own check: it is removed during the lookup.
C2_Witness ==
  /\ last.op = "get"
  /\ last.item # <<>>
  /\ last.item[1].expiry # <<>>
  /\ last.t0 <= last.item[1].expiry[1]
  /\ last.t1 > last.item[1].expiry[1]
  /\ last.ret = Undefined
  /\ stats.misses = last.pre.misses + 1
  /\ stats.size = last.pre.size - 1

\* C3: with maxSize = N > 0, a set of a key that is not present while the
\* cache holds N unexpired entries removes exactly the entry inserted
\* earliest, keeps all the others in their order and stores the new key last.
C3_FifoEviction ==
  [][(/\ Did("set")
      /\ Options(ctor).maxSize > 0
      /\ last'.key \notin KeysOf(cache)
      /\ Len(Live(cache, now)) = Options(ctor).maxSize)
     => /\ Len(cache') = Options(ctor).maxSize
        /\ SubSeq(cache', 1, Len(cache') - 1) = Tail(Live(cache, now))
        /\ cache'[Len(cache')].key = last'.key]_vars

\* C4: with maxSize = N > 0 the number of stored entries, and the size the
\* statistics report, never exceeds N.
C4_SizeBounded ==
  Options(ctor).maxSize > 0
  => /\ Len(cache) <= Options(ctor).maxSize
     /\ stats.size <= Options(ctor).maxSize

\* C5: a set of a key that is present and unexpired while the cache is at
\* maxSize evicts nothing: every other unexpired entry is still stored
\* afterwards and the number of entries is unchanged.
C5_OverwriteEvictsNothing ==
  [][(/\ Did("set")
      /\ Options(ctor).maxSize > 0
      /\ last'.key \in KeysOf(Live(cache, now))
      /\ Len(Live(cache, now)) = Options(ctor).maxSize)
     => /\ \A i \in 1 .. Len(cache) :
             (cache[i].key # last'.key /\ cache[i] \in Range(Live(cache, now)))
             => cache[i] \in Range(cache')
        /\ Len(cache') = Len(Live(cache, now))]_vars

\* The last operation is a get or a has that came right after a set on the
\* same key (only time may have passed in between).
LookupAfterSet == last.op \in {"get", "has"} /\ last.follows # <<>>

IsPresent == IF last.op = "get" THEN last.ret = last.follows[1] ELSE last.ret = "true"

\* C6: in a cache with ttl = T > 0, an entry set (without a ttl argument) at
\* clock time t is returned by get and reported by has at every time up to
\* t + T, and is absent at every time after t + T.
C6_TtlWindow ==
  (/\ LookupAfterSet
   /\ last.follows[2] = <<>>
   /\ ctor.ttl # <<>>
   /\ ctor.ttl[1] > 0)
  => IF last.t1 <= last.follows[3] + ctor.ttl[1]
     THEN IsPresent
     ELSE IsAbsent(last.ret)

C6_Witness ==
  /\ LookupAfterSet
  /\ last.op = "get"
  /\ last.follows[2] = <<>>
  /\ ctor.ttl = <<1>>
  /\ last.t1 = last.follows[3] + 2
  /\ last.item # <<>>
  /\ last.ret = Undefined

\* The ttl a set was called with is zero or negative, or it was called
\* without one on a cache constructed with a zero or negative ttl.
NonPositiveTtl ==
  \/ last.follows[2] # <<>> /\ last.follows[2][1] <= 0
  \/ last.follows[2] = <<>> /\ ctor.ttl # <<>> /\ ctor.ttl[1] <= 0

\* C7 (as stated): a set with a zero or negative ttl (or on a cache constructed
\* with one) produces an entry that the next get and the next has find absent.
C7_NonPositiveTtlExpires == (LookupAfterSet /\ NonPositiveTtl) => IsAbsent(last.ret)

\* The ttl that decides: the one of the call unless it is absent or 0, then
\* the one of the constructor unless it is absent or 0, then none (0).
DecidingTtl ==
  IF last.follows[2] # <<>> /\ last.follows[2][1] # 0 THEN last.follows[2][1]
  ELSE IF ctor.ttl # <<>> THEN ctor.ttl[1] ELSE 0

\* C7 (amended): a negative deciding ttl produces an entry that the next get
\* and has find absent; a zero ttl is no ttl: a call's ttl of 0 falls back to
\* the cache's, and when that is 0 or absent too the entry never expires and
\* the next get and has find it.
C7_NegativeExpiresZeroNever ==
  (LookupAfterSet /\ NonPositiveTtl)
  => /\ DecidingTtl < 0 => IsAbsent(last.ret)
     /\ DecidingTtl = 0 => IsPresent

C7_Witness ==
  /\ LookupAfterSet
  /\ last.op = "get"
  /\ last.follows[2] = <<0>>
  /\ ctor.ttl = <<>>
  /\ last.t1 > last.follows[3]
  /\ last.ret = last.follows[1]

\* C8: clear() leaves no entry (size 0, has(k) false for every key) and keeps
\* hits and misses as they were.
C8_ClearKeepsCounters ==
  last.op = "clear"
  => /\ cache = <<>>
     /\ stats.size = 0
     /\ \A k \in Keys : k \notin KeysOf(RemoveExpired(cache, now))
     /\ stats.hits = last.pre.hits
     /\ stats.misses = last.pre.misses

C8_Witness ==
  /\ last.op = "clear"
  /\ last.pre.size > 0
  /\ last.pre.hits > 0
  /\ stats.hits = last.pre.hits
  /\ stats.size = 0

\* memoize was given no options: no ttl, no maxSize, the default keyFn.
DefaultOptions == ctor = [ttl |-> <<>>, maxSize |-> <<>>]

\* C9: with default options, a call of the wrapped function with arguments it
\* was called with before does not invoke fn and returns what the first call
\* returned; a call with arguments it was not called with before invokes fn.
C9_MemoizeOncePerArguments ==
  (call.made /\ DefaultOptions)
  => /\ call.again => (~call.invoked /\ call.ret = call.first[1])
     /\ ~call.again => call.invoked

\* C10: a call of the wrapped function invokes fn exactly when the lookup of
\* its key in the internal cache is a miss (whatever value fn returns).
C10_InvokesExactlyOnMiss == call.made => (call.invoked <=> ~call.hit)

\* C14: between public operations the size the statistics hold, and the size
\* a getStats() reports, is the number of entries in the map.
C14_SizeIsMapSize ==
  /\ stats.size = Len(cache)
  /\ last.op = "getStats" => last.snap[1].size = Len(cache)

C14_Witness ==
  /\ last.op = "getStats"
  /\ last.snap[1].size = 2
  /\ Len(cache) = 2

\* C15: the size a getStats() reports counts no entry whose expiry time is
\* earlier than the current clock time.
C15_StatsCountNoExpired ==
  last.op = "getStats" => last.snap[1].size <= Len(Live(cache, now))

\* C16: a set of a new key on a map that holds maxSize entries of which at
\* least one has expired removes all the expired entries and no other: the
\* map afterwards is the unexpired entries, in their order, and the new key.
C16_ExpiredGoFirst ==
  [][(/\ Did("set")
      /\ Options(ctor).maxSize > 0
      /\ last'.key \notin KeysOf(cache)
      /\ Len(cache) = Options(ctor).maxSize
      /\ Len(Live(cache, now)) < Len(cache))
     => /\ Len(cache') = Len(Live(cache, now)) + 1
        /\ SubSeq(cache', 1, Len(cache') - 1) = Live(cache, now)
        /\ cache'[Len(cache')].key = last'.key]_vars

C16_Witness ==
  /\ last.op = "set"
  /\ last.item = <<>>
  /\ last.pre.size = 2
  /\ ctor.maxSize = <<2>>
  /\ last.dead = 1
  /\ Len(cache) = 2
  /\ cache[2].key = last.key

\* C17: delete(k) returns true exactly when it removed an entry; afterwards k
\* is not stored, the size is the number of remaining entries, and hits,
\* misses and all the other entries are as before.
C17_Delete ==
  [][Did("delete")
     => /\ (last'.ret = "true") <=> (Len(cache') < Len(cache))
        /\ last'.key \notin KeysOf(cache')
        /\ cache' = SelectSeq(cache, LAMBDA it : it.key # last'.key)
        /\ stats'.size = Len(cache')
        /\ stats'.hits = stats.hits
        /\ stats'.misses = stats.misses]_vars

C17_Witness ==
  /\ last.op = "delete"
  /\ last.ret = "true"
  /\ last.item # <<>>
  /\ last.pre.size = 2
  /\ Len(cache) = 1
  /\ stats.size = 1

\* C18: has(k) changes neither hits nor misses, and returns true exactly when
\* an entry for k is stored whose expiry time has not passed.
C18_Has ==
  last.op = "has"
  => /\ stats.hits = last.pre.hits
     /\ stats.misses = last.pre.misses
     /\ (last.ret = "true")
        <=> /\ last.item # <<>>
            /\ \/ last.item[1].expiry = <<>>
               \/ last.item[1].expiry[1] >= last.t0

C18_Witness ==
  /\ last.op = "has"
  /\ last.item # <<>>
  /\ last.item[1].expiry # <<>>
  /\ last.item[1].expiry[1] < last.t0
  /\ last.ret = "false"
  /\ last.pre.hits = 1
  /\ stats.hits = 1

\* The entry set(k, ...) has just stored.
Stored == MapGet(cache, last.key)[1]

\* C19 (as stated): the expiry is computed at set time from the ttl passed to
\* the call when one is given, otherwise from the cache-level ttl, otherwise
\* there is none.
C19_ExpiryFromGivenTtl ==
  last.op = "set"
  => Stored.expiry = IF last.ttl # <<>> THEN <<last.t1 + last.ttl[1]>>
                     ELSE IF ctor.ttl # <<>> THEN <<last.t1 + ctor.ttl[1]>>
                     ELSE <<>>

\* C19 (amended): a ttl of 0 counts as not given, for the call and for the
\* cache: the expiry is computed from the call's ttl when it is given and not
\* 0, otherwise from the cache-level ttl when it is given and not 0, otherwise
\* there is none.
C19_ExpiryFromNonZeroTtl ==
  last.op = "set"
  => Stored.expiry =
       IF last.ttl # <<>> /\ last.ttl[1] # 0 THEN <<last.t1 + last.ttl[1]>>
       ELSE IF ctor.ttl # <<>> /\ ctor.ttl[1] # 0 THEN <<last.t1 + ctor.ttl[1]>>
       ELSE <<>>

\* The call's ttl is longer than the cache's and decides.
C19_Witness ==
  /\ last.op = "set"
  /\ ctor.ttl = <<1>>
  /\ last.ttl = <<LongTtl>>
  /\ last.t1 > last.t0
  /\ Stored.expiry = <<last.t1 + LongTtl>>

\* C20: in a cache constructed without a ttl, an entry set without a ttl has
\* no expiry, and a get returns the value of a stored entry without expiry
\* however far the clock has advanced.
C20_NoTtlNeverExpires ==
  /\ (last.op = "set" /\ last.ttl = <<>> /\ ctor.ttl = <<>>) => Stored.expiry = <<>>
  /\ (last.op = "get" /\ last.item # <<>> /\ last.item[1].expiry = <<>>)
     => /\ last.ret = last.item[1].value
        /\ MapGet(cache, last.key) = last.item
  /\ (LookupAfterSet /\ last.follows[2] = <<>> /\ ctor.ttl = <<>>) => IsPresent

C20_Witness ==
  /\ last.op = "get"
  /\ ctor.ttl = <<>>
  /\ last.follows # <<>>
  /\ last.follows[2] = <<>>
  /\ last.follows[3] = StartTime
  /\ last.t0 = MaxTime
  /\ last.ret = last.follows[1]

\* The step starts a call of the async wrapper / completes one that awaited.
Started == event'.kind = "start" /\ ops' = ops + 1

Settled == event'.kind = "settle" /\ pending' # pending

\* C11: with default options, a call whose fn rejects ends with that error
\* and changes nothing in the cache; a call whose key is then not cached
\* invokes fn; when fn resolves, the value is stored under the key; and the
\* next call with that key returns the value without invoking fn.
C11_RejectThenRetryThenCached ==
  [][DefaultOptions
     => /\ (Settled /\ event'.ret = Rejects) => (cache' = cache /\ stats' = stats)
        /\ (Started /\ event'.key \notin KeysOf(cache))
           => (event'.invoked /\ calls' = calls + 1)
        /\ (Settled /\ event'.ret # Rejects)
           => MapGet(cache', event'.key)[1].value = event'.ret
        /\ (Started /\ event.kind = "settle" /\ event.ret # Rejects
            /\ event'.key = event.key)
           => (~event'.invoked /\ event'.ret = event.ret /\ calls' = calls)]_vars

\* C12: when fn throws in a call of the memoize wrapper, the caller gets the
\* exception, no entry is added or changed and every unexpired entry stays;
\* the next call with the same arguments invokes fn again.
C12_ThrowLeavesCache ==
  [][(ops' = ops + 1 /\ call'.made)
     => /\ (call'.invoked /\ fn[call'.arg] = Throws)
           => /\ call'.ret = Throws
              /\ Range(cache') \subseteq Range(cache)
              /\ Live(cache', now') = Live(cache, now')
        /\ (call.made /\ call.ret = Throws /\ call'.arg = call.arg)
           => call'.invoked]_vars

C12_Witness ==
  /\ call.made
  /\ call.ret = Throws
  /\ calls = 3
  /\ Len(cache) = 1
  /\ KeyFn(call.arg) \notin KeysOf(cache)

\* C13: a call of the async wrapper whose key is not cached, started while
\* another call with the same key is still awaiting fn, invokes fn itself.
C13_NoInFlightSharing ==
  (event.kind = "start" /\ event.overlap /\ ~event.hit)
  => /\ event.invoked
     /\ calls = event.calls + 1
     /\ \E p \in pending : p.id = event.id /\ p.key = event.key

C13_Witness ==
  /\ event.kind = "start"
  /\ event.overlap
  /\ event.invoked
  /\ calls = 2
  /\ Cardinality({p \in pending : p.key = event.key}) = 2

\* C21: the passage of time alone changes neither the stored entries nor the
\* statistics; an entry whose expiry has passed leaves the map only in a set,
\* a get or a has (or when the caller removes it: delete of its key, clear).
C21_ExpiryIsLazy ==
  [][/\ (now' # now /\ ops' = ops) => (cache' = cache /\ stats' = stats)
     /\ \A i \in 1 .. Len(cache) :
          (Expired(cache[i], now') /\ cache[i] \notin Range(cache'))
          => \/ Did("set") \/ Did("get") \/ Did("has")
             \/ Did("delete") /\ last'.key = cache[i].key
             \/ Did("clear")]_vars

\* The clock is past the expiry of an entry that was set before, and the
\* entry is still stored and counted.
C21_Witness ==
  /\ last.op = "set"
  /\ Len(cache) = 1
  /\ Expired(cache[1], now)
  /\ cache[1].expiry[1] > last.t1
  /\ stats.size = 1

\* C22: gets never change what a set keeps: after every set the keys present
\* are those present in the cache that was given the same calls at the same
\* clock times without the gets (so any two runs that differ only in their
\* gets, each agreeing with the run without gets, agree with each other).
C22_GetsDoNotChangeEviction == last.op = "set" => KeysOf(cache) = KeysOf(twin)

\* A get hit an entry of a full cache, and the set of a new key that followed
\* evicted the entry inserted first.
C22_Witness ==
  /\ last.op = "set"
  /\ ops = 2
  /\ gets = 1
  /\ stats.hits = 1
  /\ ctor.maxSize = <<2>>
  /\ last.pre.size = 2
  /\ last.item = <<>>
  /\ KeySeq(cache) = <<"b", last.key>>
  /\ cache[1].value = "v2"

\* The cache instance of wrapped function v.
CacheOf(cs, ws, v) == cs[ws[v].cache]

\* C23: a call of one wrapped function (or its completion) changes nothing in
\* the cache of any other wrapped function, and a call with a key under which
\* the wrapped function itself has stored nothing invokes fn, whatever the
\* other wrapped functions of the same fn have stored under that key.
C23_OwnCachePerWrapper ==
  [][(event' # event /\ wraps' # <<>>)
     => /\ \A v \in 1 .. Len(wraps) :
             v # event'.w => CacheOf(caches', wraps', v) = CacheOf(caches, wraps, v)
        /\ (event'.kind \in {"call", "start"} /\ ~event'.own) => event'.invoked]_vars

\* Two wrapped functions; the first has stored a result under the key with
\* which the second is called, and the second invokes fn all the same.
C23_Witness ==
  /\ Len(wraps) = 2
  /\ event.kind \in {"call", "start"}
  /\ event.w = 2
  /\ event.invoked
  /\ event.key \in wraps[1].keys
  /\ event.key \in KeysOf(CacheOf(caches, wraps, 1).map)
  /\ calls = 2

\* C24: an assignment to a field of an object getStats() returned changes
\* nothing in the cache or its statistics, and a getStats() after it reports
\* the number of entries, the maxSize the cache was constructed with, and
\* hits and misses that add up to the gets made.
C24_StatsSnapshot ==
  [][/\ (held' # held /\ ops' = ops) => (stats' = stats /\ cache' = cache)
     /\ (Did("getStats") /\ held' # held)
        => LET snap == held'[Len(held')].fields
           IN /\ snap.size = Len(cache')
              /\ snap.maxSize = InitStats(ctor).maxSize
              /\ snap.hits + snap.misses = gets
              /\ snap.hits <= gets]_vars

\* The caller overwrote the size and the hits of the first object it was
\* given; the second one, taken afterwards, shows the one entry there is.
C24_Witness ==
  /\ Len(held) = 2
  /\ held[1].fields.hits = Bogus("hits")
  /\ held[1].fields.size = Bogus("size")
  /\ held[2].fields = StatsCopy(stats)
  /\ stats.hits = 0
  /\ stats.size = 1
  /\ Len(cache) = 1

\* C25: hits and misses never decrease; a get adds exactly 1 to exactly one of
\* them; no other operation changes either; so hits + misses is the number
\* of gets made.
C25_CountersCountGets ==
  [][/\ stats'.hits >= stats.hits
     /\ stats'.misses >= stats.misses
     /\ Did("get") => \/ stats'.hits = stats.hits + 1 /\ stats'.misses = stats.misses
                      \/ stats'.hits = stats.hits /\ stats'.misses = stats.misses + 1
     /\ ~Did("get") => (stats'.hits = stats.hits /\ stats'.misses = stats.misses)
     /\ stats'.hits + stats'.misses = gets']_vars

C25_Witness ==
  /\ gets = 2
  /\ stats.hits = 1
  /\ stats.misses = 1
  /\ last.op = "get"
  /\ ops = MaxOps

\* The keys of c that are in ks, in c's order.
KeysAmong(c, ks) == SelectSeq(KeySeq(c), LAMBDA k : k \in ks)

\* C26: a set of a key that is present (stored and unexpired) leaves the
\* keys that are present before and after it in the same relative order,
\* whether or not the cache is at maxSize.
C26_OverwriteKeepsOrder ==
  [][(Did("set") /\ last'.key \in KeysOf(Live(cache, now)))
     => KeysAmong(cache', KeysOf(Live(cache, now)))
        = KeysAmong(Live(cache, now), KeysOf(cache'))]_vars

\* C27: with maxSize set, the successful completion of a call whose key
\* another (overlapping) call has stored meanwhile leaves the cached keys as
\* they are: it evicts the result of no other key.
C27_OverlapEvictsNothing ==
  [][(/\ Settled
      /\ event'.ret # Rejects
      /\ Options(ctor).maxSize > 0
      /\ event'.key \in KeysOf(cache))
     => KeysOf(cache') = KeysOf(cache)]_vars

\* C28: when a call of the async wrapper completes with a value, that value
\* is what the call returns and what is cached under its key from then on,
\* whatever an overlapping call that completed earlier had stored there and
\* whichever of them started first.
C28_LastWriterWins ==
  (event.kind = "settle" /\ event.ret # Rejects)
  => /\ MapGet(cache, event.key) # <<>>
     /\ MapGet(cache, event.key)[1].value = event.ret

\* Two overlapping calls with the same key: the one started second resolved
\* first with r1, the one started first resolved afterwards with r2.
C28_Witness ==
  /\ event.kind = "settle"
  /\ event.id = 1
  /\ ops = 2
  /\ calls = 2
  /\ pending = {}
  /\ event.before # <<>>
  /\ event.before[1].value = "r1"
  /\ event.ret = "r2"
  /\ MapGet(cache, event.key)[1].value = "r2"

\* How many of the items passed to fn so far, and of the calls made, are x.
PassedToFn(x) ==
  Cardinality({rj \in (1 .. Len(runs)) \X (1 .. MaxOps) :
                 rj[2] <= Len(runs[rj[1]].items) /\ runs[rj[1]].items[rj[2]] = x})

CalledWith(x) == Cardinality({w \in 1 .. Len(waiters) : waiters[w].item = x})

\* C29: the calls made while fewer than maxSize items are queued and before
\* maxDelay has elapsed since the first await the same invocation of fn; once
\* every call has returned each item has been passed to fn exactly once; and
\* a call returns the element of fn's result that belongs to its own item.
C29_BatchCollects ==
  /\ \A j \in 1 .. Len(waiters) :
       (j <= bopts.maxSize /\ waiters[j].at - waiters[1].at < bopts.maxDelay)
       => waiters[j].awaits = waiters[1].awaits
  /\ (\A w \in 1 .. Len(waiters) : waiters[w].done)
     => \A x \in Items : PassedToFn(x) = CalledWith(x)
  /\ \A w \in 1 .. Len(waiters) :
       waiters[w].done => waiters[w].ret = <<[of |-> waiters[w].item]>>

\* The attempts made so far that failed.
Failed == {j \in 1 .. Len(attempts) : attempts[j].out \in Errors}

\* C30: with retries = n >= 1, fetchWithRetry makes at most n attempts, each
\* after the one before is over; an attempt that succeeds is the last one and
\* its response is returned; after failed attempt i (from 0) it waits
\* retryDelay * (i + 1) before the next attempt, and not after attempt n - 1;
\* when all n attempts have failed it throws the error of the last one.
C30_RetryThenThrowLast ==
  ropts.retries >= 1
  => /\ Len(attempts) <= ropts.retries
     /\ \A j \in 1 .. Len(attempts) - 1 :
          /\ attempts[j].out \in Errors
          /\ attempts[j + 1].i = attempts[j].i + 1
          /\ attempts[j + 1].at >= attempts[j].end[1] + ropts.retryDelay * j
     /\ \A j \in 1 .. Len(attempts) :
          attempts[j].out \in Responses
          => /\ j = Len(attempts)
             /\ pc = "returned"
             /\ promise = <<[state |-> "fulfilled", value |-> <<attempts[j].out>>]>>
     /\ Len(waits) = IF Cardinality(Failed) < ropts.retries
                     THEN Cardinality(Failed) ELSE ropts.retries - 1
     /\ \A j \in 1 .. Len(waits) :
          waits[j].after = j - 1 /\ waits[j].delay = ropts.retryDelay * j
     /\ (promise # <<>> /\ promise[1].state = "rejected")
        => /\ Len(attempts) = ropts.retries
           /\ Failed = 1 .. ropts.retries
           /\ promise[1].value = <<attempts[ropts.retries].out>>

\* Three attempts failed, the last with another error than the first; the
\* waits were retryDelay and twice retryDelay, and the last error is thrown.
C30_Witness ==
  /\ ropts = [retries |-> MaxRetries, retryDelay |-> MaxDelay]
  /\ pc = "thrown"
  /\ Len(attempts) = MaxRetries
  /\ attempts[1].out = "err1"
  /\ attempts[MaxRetries].out = "err2"
  /\ promise = <<[state |-> "rejected", value |-> <<"err2">>]>>
  /\ Len(waits) = MaxRetries - 1
  /\ waits[Len(waits)].delay = MaxDelay * (MaxRetries - 1)

====
